---- MODULE Spec2Model ----
(***************************************************************************)
(* Model of the real-time relay in src/main.py over the ORM entities of    *)
(* src/database.py: the friend table, the message table, the location      *)
(* table, the in-memory connection registry (active_connections), and the  *)
(* per-connection handler tasks of websocket_endpoint with their           *)
(* suspension points.                                                      *)
(***************************************************************************)
EXTENDS Integers, Sequences, FiniteSets, TLC

(* ------------------------------ bounds -------------------------------- *)

\* websocket connections opened in one run
MaxChans == 3
\* rows in the messages table when the process starts
MaxMsgs == 1
\* distinct coordinates a client may report
MaxCoord == 1
\* slots of the registry dict's entry array used while an iterator is live
MaxEntries == 4
\* location updates being handled at the same time
MaxInFlight == 1
\* websocket connections opened in one run of the messaging specification
MaxMsgChans == 2
\* latest creation day of a stored message
MaxCreated == 2
\* rows in the messages table when a run of the retention specification starts
MaxAged == 2
MaxTimers == 2
MaxPayload == 2
MaxSigChans == 2

(* ----------------------------- universes ------------------------------ *)

Users == {"u1", "u2", "u3"}
NoUser == "-"
Chans == 1 .. MaxChans
Coords == 1 .. MaxCoord
NoLoc == 0
MsgIds == 1 .. MaxMsgs
\* ids a client may put in message_ids: the stored ones and one that is not
AckIds == 1 .. (MaxMsgs + 1)
\* a deleted slot of a dict's entry array
Dummy == "<dummy>"
Pairs == Users \X Users
\* the friend requests clients issue: between u1 and u2 (and to oneself); u3
\* stays a stranger to both
FriendRequests == {<<"u1", "u2">>, <<"u1", "u1">>}
\* the users whose clients report locations
Reporters == {"u1"}
\* sender and receiver of the stored messages
StoredPairs == {<<"u1", "u2">>, <<"u2", "u1">>}
\* timedelta(days=7); time is counted in days
Horizon == 7
\* created_at of the stored messages
CreatedAts == 0 .. MaxCreated
\* the day the process starts: no stored message is younger
ProcessStart == MaxCreated
\* the readings of datetime.utcnow() in this process
Clock == ProcessStart .. (MaxCreated + Horizon + 1)

\* the pairs <<user, receiver_id>> of the typing events
TypingPairs == {<<"u1", "u2">>, <<"u1", "u3">>}
\* offer / answer / candidate of a signalling event; NoPayload where an event has none
NoPayload == 0
Payloads == 1 .. MaxPayload
\* target_id of the signalling events (NoUser: the key is missing)
SignalTargets == {"u2", NoUser}
SignalSenders == {"u1"}

VARIABLES
    friends,             \* friends table: ids of the rows of each directed pair
    add_pending,         \* add_friend requests between their SELECT and COMMIT
    rm_pending,          \* remove_friend requests between their SELECT and COMMIT
    cleanup_pc,          \* position of the cleanup_old_messages task
    typing_status,       \* typing_status dict: <<user, peer>> -> is_typing
    timers,              \* <<user, peer>> -> clear_typing tasks in their sleep
    messages,            \* messages table: id -> row (column -> value)
    locations,           \* user_locations table: user -> coordinate or NoLoc
    active_connections,  \* registry dict: user -> channel
    dict_order,          \* entry array of the registry dict (insertion order)
    ws_user,             \* channel -> user of the path /ws/{user_id}, or NoUser
    ws_pc,               \* channel -> position of its websocket_endpoint task
    ws_alive,            \* channel -> the client end is still there
    bc,                  \* channel -> locals of its broadcast_location_update
    out                  \* what the last step printed, raised and pushed

vars == <<friends, add_pending, rm_pending, cleanup_pc, typing_status, timers,
          messages, locations,
          active_connections, dict_order, ws_user, ws_pc, ws_alive, bc, out>>

(* --------------------------- ORM entities ----------------------------- *)

\* Column attributes of class Message
MessageColumns == {"id", "sender_id", "receiver_id", "content", "sticker", "created_at"}

\* Keyword arguments handle_message passes to DBMessage(...)
MessageCtorKwargs == {"sender_id", "receiver_id", "content", "sticker", "status"}

\* The declarative constructor rejects a keyword that is no attribute of the
\* class (TypeError: '<k>' is an invalid keyword argument for Message).
CtorRaises(kwargs) == ~(kwargs \subseteq MessageColumns)

\* The columns a row of the model carries (payload columns are left out).
RowColumns == MessageColumns \ {"id", "content", "sticker"}

\* Reading an attribute the class does not declare raises AttributeError.
GetAttrRaises(row, attr) == attr \notin DOMAIN row

\* Result.scalar_one_or_none() on n rows.
scalar_one_or_none(n) ==
    IF n = 0 THEN "none" ELSE IF n = 1 THEN "one" ELSE "MultipleResultsFound"

\* Rows matched by or_(and_(user_id == a, friend_id == b),
\*                     and_(user_id == b, friend_id == a)).
MatchingRows(a, b) == friends[<<a, b>>] \cup friends[<<b, a>>]
EdgeRows(a, b) == Cardinality(MatchingRows(a, b))

\* select(DBFriend).where(DBFriend.friend_id == user_id): the user_id column.
FriendUserIds(u) == {v \in Users : friends[<<v, u>>] # {}}

\* The primary keys in use: of the rows of the table and of the Friend
\* objects a remove_friend still holds.
UsedIds == UNION {friends[p] : p \in Pairs} \cup UNION {r.rows : r \in rm_pending}

\* id = Column(Integer, primary_key=True, autoincrement=True): a key no row
\* and no loaded object has. Only the identity of a row is modelled, so the
\* least such key stands for the next value of the sequence.
NextId(used) == CHOOSE i \in 1 .. (Cardinality(used) + 1) :
                    i \notin used /\ \A j \in 1 .. (i - 1) : j \in used

(* ------------------------- the registry dict -------------------------- *)

EmptyDict == [x \in {} |-> x]

Registered == DOMAIN active_connections

\* A channel with a live dict iterator (a fan-out suspended in a send).
Iterating(pcs, b) == \E c \in Chans : pcs[c] = "fanout" /\ b[c].di_pos > 0

Compact(order) == SelectSeq(order, LAMBDA e : e # Dummy)

\* active_connections[u] = c
DictSet(ac, u, c) == [x \in (DOMAIN ac) \cup {u} |-> IF x = u THEN c ELSE ac[x]]
OrderSet(ac, order, u) == IF u \in DOMAIN ac THEN order ELSE Append(order, u)

\* del active_connections[u]
DictDel(ac, us) == [x \in (DOMAIN ac) \ us |-> ac[x]]
OrderDel(order, us) == [i \in DOMAIN order |-> IF order[i] \in us THEN Dummy ELSE order[i]]

\* Deleted slots matter only to a live iterator: with none, keep the array packed.
Settle(order, pcs, b) == IF Iterating(pcs, b) THEN order ELSE Compact(order)

(* ------------------------- the typing dict ---------------------------- *)

\* "user_id in typing_status and receiver_id in typing_status[user_id]": an
\* inner dict is created together with its first entry, so the nested dict
\* is the set of its <<user, peer>> keys.
TypingHas(ts, u, p) == <<u, p>> \in DOMAIN ts

\* typing_status[u][p] = v
TypingSet(ts, u, p, v) ==
    [k \in (DOMAIN ts) \cup {<<u, p>>} |-> IF k = <<u, p>> THEN v ELSE ts[k]]

\* del typing_status[u]
TypingDel(ts, u) == [k \in {q \in DOMAIN ts : q[1] # u} |-> ts[k]]

(* ------------------------------- Init --------------------------------- *)

NoBc == [friend_ids |-> {}, coord |-> NoLoc, di_used |-> 0, di_pos |-> 0,
         di_len |-> 0, disconnected |-> {}, sent |-> <<>>, stable |-> {}]

\* One event written to a channel with send_text.
Push(to, chan, type, sender, coord, ids, locs) ==
    [to |-> to, chan |-> chan, type |-> type, sender |-> sender,
     coord |-> coord, ids |-> ids, locs |-> locs, is_typing |-> FALSE,
     payload |-> NoPayload]

\* {"type": "typing_status", "sender_id": ..., "is_typing": ...}
TypingEvent(to, chan, sender, is_typing) ==
    [Push(to, chan, "typing_status", sender, NoLoc, {}, {}) EXCEPT !.is_typing = is_typing]

\* {"type": kind, <offer | answer | candidate>: ..., "sender_id": ...}
SignalEvent(to, chan, kind, sender, payload) ==
    [Push(to, chan, kind, sender, NoLoc, {}, {}) EXCEPT !.payload = payload]

Out(op, result, user, pushed) ==
    [op |-> op, result |-> result, user |-> user, peer |-> NoUser, pushed |-> pushed,
     ids |-> {}, sent |-> <<>>, stable |-> {}, friend_ids |-> {}, coord |-> NoLoc,
     failed |-> {}, messages |-> <<>>, payload |-> NoPayload]

\* Rows an earlier deployment left in the messages table (the migration in
\* init_db expects such a table); this process never adds one (see handle_message).
RowsAt(pairs, times) ==
    {[k \in RowColumns |-> IF k = "sender_id" THEN p[1]
                           ELSE IF k = "receiver_id" THEN p[2] ELSE t]
       : p \in pairs, t \in times}
StoredRows == RowsAt(StoredPairs, {ProcessStart})

\* The state after startup_event, but for the messages table.
InitProcess ==
    /\ friends = [p \in Pairs |-> {}]
    /\ add_pending = {}
    /\ rm_pending = {}
    /\ cleanup_pc = "sleep"
    /\ typing_status = EmptyDict
    /\ timers = [p \in Pairs |-> 0]
    /\ locations = [u \in Users |-> NoLoc]
    /\ active_connections = EmptyDict
    /\ dict_order = << >>
    /\ ws_user = [c \in Chans |-> NoUser]
    /\ ws_pc = [c \in Chans |-> "unused"]
    /\ ws_alive = [c \in Chans |-> FALSE]
    /\ bc = [c \in Chans |-> NoBc]
    /\ out = Out("init", "ok", NoUser, {})

Init ==
    /\ InitProcess
    /\ \E n \in 0 .. MaxMsgs :
         messages \in [1 .. n -> StoredRows]

(* --------------------------- friends (REST) --------------------------- *)

\* POST /api/users/{a}/friends, up to the existence check.
add_friend(a, b) ==
    /\ IF a = b
       THEN /\ out' = [Out("add_friend", "400 self", a, {}) EXCEPT !.peer = b]
            /\ UNCHANGED add_pending
       ELSE LET existing == scalar_one_or_none(EdgeRows(a, b)) IN
            IF existing = "none"
            THEN /\ <<a, b>> \notin add_pending
                 /\ add_pending' = add_pending \cup {<<a, b>>}
                 /\ out' = [Out("add_friend", "checked", a, {}) EXCEPT !.peer = b]
            ELSE /\ out' = [Out("add_friend",
                                IF existing = "one" THEN "400 exists" ELSE existing, a, {})
                            EXCEPT !.peer = b]
                 /\ UNCHANGED add_pending
    /\ UNCHANGED <<friends, messages, locations, active_connections, dict_order,
                   ws_user, ws_pc, ws_alive, bc,
                   rm_pending, cleanup_pc,
                   typing_status, timers>>

\* A request that adds friendship1 and leaves friendship2 out.
InsertedOneWay(a, b) == [friends EXCEPT ![<<a, b>>] = @ \cup {NextId(UsedIds)}]

\* db.add(friendship1); db.add(friendship2); commit: the table with both rows.
Inserted(a, b) ==
    LET id1 == NextId(UsedIds)
        id2 == NextId(UsedIds \cup {id1})
    IN  [friends EXCEPT ![<<a, b>>] = @ \cup {id1}, ![<<b, a>>] = @ \cup {id2}]

\* ... its two db.add and the commit.
add_friend_commit(a, b) ==
    /\ <<a, b>> \in add_pending
    /\ add_pending' = add_pending \ {<<a, b>>}
    /\ friends' = Inserted(a, b)
    /\ out' = [Out("add_friend", "ok", a, {}) EXCEPT !.peer = b]
    /\ UNCHANGED <<messages, locations, active_connections, dict_order,
                   ws_user, ws_pc, ws_alive, bc,
                   rm_pending, cleanup_pc,
                   typing_status, timers>>

\* A request that deletes friendships[0] alone.
DeletedFirst(rows) ==
    [p \in Pairs |-> friends[p] \ {i \in rows : \A j \in rows : i <= j}]

\* "for friendship in friendships: await db.delete(friendship)" and the commit:
\* the table without the rows of the given ids.
Deleted(rows) == [p \in Pairs |-> friends[p] \ rows]

\* DELETE /api/users/{a}/friends/{b} served with no other store operation
\* between its select and its commit: every row of either direction goes.
remove_friend(a, b) ==
    /\ friends' = Deleted(MatchingRows(a, b))
    /\ out' = [Out("remove_friend", "ok", a, {}) EXCEPT !.peer = b]
    /\ UNCHANGED <<add_pending, messages, locations, active_connections, dict_order,
                   ws_user, ws_pc, ws_alive, bc,
                   rm_pending, cleanup_pc,
                   typing_status, timers>>

\* The Friend objects a remove_friend(a, b) holds between its select and its commit.
Selected(a, b) == {r \in rm_pending : r.user_id = a /\ r.friend_id = b}

\* DELETE /api/users/{a}/friends/{b}, up to "friendships = result.scalars().all()".
remove_friend_select(a, b) ==
    /\ Selected(a, b) = {}
    /\ rm_pending' = rm_pending \cup
                        {[user_id |-> a, friend_id |-> b, rows |-> MatchingRows(a, b)]}
    /\ out' = [Out("remove_friend", "selected", a, {}) EXCEPT !.peer = b]
    /\ UNCHANGED <<friends, add_pending, messages, locations, active_connections,
                   dict_order, ws_user, ws_pc, ws_alive, bc, cleanup_pc,
                   typing_status, timers>>

\* ... its deletes by primary key and the commit; a key that matches no row
\* any more deletes nothing.
remove_friend_commit(a, b) ==
    /\ \E r \in Selected(a, b) :
          /\ friends' = Deleted(r.rows)
          /\ rm_pending' = rm_pending \ {r}
          /\ out' = [Out("remove_friend", "ok", a, {}) EXCEPT !.peer = b, !.ids = r.rows]
    /\ UNCHANGED <<add_pending, messages, locations, active_connections,
                   dict_order, ws_user, ws_pc, ws_alive, bc, cleanup_pc,
                   typing_status, timers>>

(* ----------------------- connection life cycle ------------------------ *)

\* A registry entry that changed is no longer "registered and writable
\* throughout" for the fan-outs in flight.
Unstable(b, us) == [c \in Chans |-> [b[c] EXCEPT !.stable = @ \ us]]

FreeChan(c) == ws_user[c] = NoUser /\ \A d \in Chans : d < c => ws_user[d] # NoUser

\* websocket.accept() and active_connections[user_id] = websocket.
connect(u, c) ==
    /\ FreeChan(c)
    /\ u \in Registered \/ Len(dict_order) < MaxEntries
    /\ ws_user' = [ws_user EXCEPT ![c] = u]
    /\ ws_alive' = [ws_alive EXCEPT ![c] = TRUE]
    /\ ws_pc' = [ws_pc EXCEPT ![c] = "registered"]
    /\ active_connections' = DictSet(active_connections, u, c)
    /\ dict_order' = OrderSet(active_connections, dict_order, u)
    /\ bc' = Unstable(bc, {u})
    /\ out' = Out("connect", "ok", u, {})
    /\ UNCHANGED <<friends, add_pending, messages, locations,
                   rm_pending, cleanup_pc,
                   typing_status, timers>>

\* A snapshot of every stored location.
InitialLocationsOfAll(u) ==
    {<<v, locations[v]>> : v \in {w \in Users : locations[w] # NoLoc}}

\* The initial_locations snapshot: friends by DBFriend.user_id == user_id, plus self.
InitialLocations(u) ==
    {<<v, locations[v]>> : v \in {w \in Users : (w = u \/ friends[<<u, w>>] # {})
                                                /\ locations[w] # NoLoc}}

send_initial(c) ==
    /\ ws_pc[c] = "registered"
    /\ ws_pc' = [ws_pc EXCEPT ![c] = "loop"]
    /\ out' = IF ws_alive[c]
              THEN Out("initial_locations", "ok", ws_user[c],
                       {Push(ws_user[c], c, "initial_locations", ws_user[c], NoLoc, {},
                             InitialLocations(ws_user[c]))})
              ELSE Out("initial_locations", "send failed", ws_user[c], {})
    /\ UNCHANGED <<friends, add_pending, messages, locations, active_connections,
                   dict_order, ws_user, ws_alive, bc,
                   rm_pending, cleanup_pc,
                   typing_status, timers>>

\* The client goes away: writes to the channel fail from now on.
client_close(c) ==
    /\ ws_alive[c]
    /\ ws_alive' = [ws_alive EXCEPT ![c] = FALSE]
    /\ bc' = IF ws_user[c] \in Registered /\ active_connections[ws_user[c]] = c
             THEN Unstable(bc, {ws_user[c]}) ELSE bc
    /\ out' = Out("client_close", "ok", ws_user[c], {})
    /\ UNCHANGED <<friends, add_pending, messages, locations, active_connections,
                   dict_order, ws_user, ws_pc,
                   rm_pending, cleanup_pc,
                   typing_status, timers>>

\* receive_text raises WebSocketDisconnect: the except branch of the endpoint.
on_disconnect(c) ==
    /\ ws_pc[c] = "loop"
    /\ ~ws_alive[c]
    /\ ws_pc' = [ws_pc EXCEPT ![c] = "closed"]
    /\ active_connections' = DictDel(active_connections, {ws_user[c]})
    /\ dict_order' = Settle(OrderDel(dict_order, {ws_user[c]}), ws_pc', bc)
    /\ bc' = Unstable(bc, {ws_user[c]})
    /\ typing_status' = TypingDel(typing_status, ws_user[c])
    /\ out' = Out("disconnect", "ok", ws_user[c], {})
    /\ UNCHANGED <<friends, add_pending, messages, locations, ws_user, ws_alive,
                   rm_pending, cleanup_pc, timers>>

\* receive_text returns a payload that json.loads or message["type"] rejects:
\* the exception is no WebSocketDisconnect, so it leaves websocket_endpoint past
\* the except branch and the server closes the socket.
bad_payload(c) ==
    /\ ws_pc[c] = "loop"
    /\ ws_alive[c]
    /\ ws_pc' = [ws_pc EXCEPT ![c] = "crashed"]
    /\ ws_alive' = [ws_alive EXCEPT ![c] = FALSE]
    /\ bc' = IF ws_user[c] \in Registered /\ active_connections[ws_user[c]] = c
             THEN Unstable(bc, {ws_user[c]}) ELSE bc
    /\ out' = Out("receive", "unhandled exception", ws_user[c], {})
    /\ UNCHANGED <<friends, add_pending, messages, locations, active_connections,
                   dict_order, ws_user, rm_pending, cleanup_pc,
                   typing_status, timers>>

(* ------------------------- location broadcast ------------------------- *)

\* The location_update branch of the receive loop, up to db.commit().
location_update(c, coord) ==
    /\ ws_pc[c] = "loop"
    /\ ws_alive[c]
    /\ Cardinality({d \in Chans : ws_pc[d] \in {"persisted", "fanout"}}) < MaxInFlight
    /\ locations' = [locations EXCEPT ![ws_user[c]] = coord]
    /\ ws_pc' = [ws_pc EXCEPT ![c] = "persisted"]
    /\ bc' = [bc EXCEPT ![c] =
                [NoBc EXCEPT !.coord = coord,
                             !.stable = {v \in Registered : ws_alive[active_connections[v]]}]]
    /\ out' = Out("location_update", "persisted", ws_user[c], {})
    /\ UNCHANGED <<friends, add_pending, messages, active_connections, dict_order,
                   ws_user, ws_alive,
                   rm_pending, cleanup_pc,
                   typing_status, timers>>

\* A handler whose broadcast call sits outside the try block.
location_update_unsaved(c, coord) ==
    /\ ws_pc[c] = "loop"
    /\ ws_alive[c]
    /\ Cardinality({d \in Chans : ws_pc[d] \in {"persisted", "fanout"}}) < MaxInFlight
    /\ ws_pc' = [ws_pc EXCEPT ![c] = "persisted"]
    /\ bc' = [bc EXCEPT ![c] =
                [NoBc EXCEPT !.coord = coord,
                             !.stable = {v \in Registered : ws_alive[active_connections[v]]}]]
    /\ out' = [Out("location_update", "store error", ws_user[c], {}) EXCEPT !.coord = coord]
    /\ UNCHANGED <<friends, add_pending, messages, locations, active_connections,
                   dict_order, ws_user, ws_alive, rm_pending, cleanup_pc,
                   typing_status, timers>>

\* The location_update branch when the select or the commit raises: the
\* except branch prints, rolls back, and the loop goes on to the next receive.
location_update_failed(c, coord) ==
    /\ ws_pc[c] = "loop"
    /\ ws_alive[c]
    /\ out' = [Out("location_update", "store error", ws_user[c], {}) EXCEPT !.coord = coord]
    /\ UNCHANGED <<friends, add_pending, messages, locations, active_connections,
                   dict_order, ws_user, ws_pc, ws_alive, bc, rm_pending, cleanup_pc,
                   typing_status, timers>>

\* broadcast_location_update: the friend query and friend_user_ids.add(user_id).
broadcast_query(c) ==
    /\ ws_pc[c] = "persisted"
    /\ ws_pc' = [ws_pc EXCEPT ![c] = "fanout"]
    /\ bc' = [bc EXCEPT ![c].friend_ids = FriendUserIds(ws_user[c]) \cup {ws_user[c]}]
    /\ out' = Out("location_update", "queried", ws_user[c], {})
    /\ UNCHANGED <<friends, add_pending, messages, locations, active_connections,
                   dict_order, ws_user, ws_alive,
                   rm_pending, cleanup_pc,
                   typing_status, timers>>

\* next() of a dict iterator at slot pos with len items still expected.
DictIterNext(order, pos, len) ==
    LET live == {i \in pos .. Len(order) : order[i] # Dummy} IN
    IF live = {} THEN [kind |-> "stop", pos |-> pos, len |-> len, uid |-> NoUser]
    ELSE LET i == CHOOSE j \in live : \A k \in live : j <= k IN
         IF len = 0
         THEN [kind |-> "keys changed", pos |-> pos, len |-> len, uid |-> NoUser]
         ELSE [kind |-> "item", pos |-> i + 1, len |-> len - 1, uid |-> order[i]]

\* The for loop up to its next send: entries outside friend_user_ids are passed
\* over without suspending.
RECURSIVE NextRecipient(_, _, _, _)
NextRecipient(order, pos, len, friend_ids) ==
    LET it == DictIterNext(order, pos, len) IN
    IF it.kind = "item" /\ it.uid \notin friend_ids
    THEN NextRecipient(order, it.pos, it.len, friend_ids)
    ELSE it

\* The fan-out returns to the receive loop (or raises into its except branch).
FanoutEnds(c, result, removed) ==
    /\ ws_pc' = [ws_pc EXCEPT ![c] = "loop"]
    /\ active_connections' = DictDel(active_connections, removed)
    /\ bc' = [Unstable(bc, removed \cap Registered) EXCEPT ![c] = NoBc]
    /\ dict_order' = Settle(OrderDel(dict_order, removed), ws_pc', bc')
    /\ out' = [Out("location_update", result, ws_user[c], {}) EXCEPT
                 !.sent = bc[c].sent, !.stable = bc[c].stable,
                 !.friend_ids = bc[c].friend_ids, !.coord = bc[c].coord]

\* One resumption of the for loop over active_connections.items(): the size
\* check of next(), then either one send_text or the end of the loop and the
\* removal of the channels whose send failed.
broadcast_step(c) ==
    /\ ws_pc[c] = "fanout"
    /\ LET b == bc[c]
           fresh == b.di_pos = 0
           used == IF fresh THEN Cardinality(Registered) ELSE b.di_used
           it == NextRecipient(dict_order, IF fresh THEN 1 ELSE b.di_pos,
                               IF fresh THEN Cardinality(Registered) ELSE b.di_len,
                               b.friend_ids)
       IN  IF Cardinality(Registered) # used \/ it.kind = "keys changed"
           THEN FanoutEnds(c, "RuntimeError", {})
           ELSE IF it.kind = "stop"
           THEN FanoutEnds(c, "ok", b.disconnected)
           ELSE LET ws == active_connections[it.uid] IN
                /\ bc' = [bc EXCEPT ![c] =
                            [b EXCEPT !.di_used = used, !.di_pos = it.pos, !.di_len = it.len,
                                      !.sent = IF ws_alive[ws] THEN Append(@, it.uid) ELSE @,
                                      !.disconnected = IF ws_alive[ws] THEN @
                                                       ELSE @ \cup {it.uid}]]
                /\ out' = Out("location_update", "sending", ws_user[c],
                              IF ws_alive[ws]
                              THEN {Push(it.uid, ws, "location_update", ws_user[c],
                                         b.coord, {}, {})}
                              ELSE {})
                /\ UNCHANGED <<active_connections, dict_order, ws_pc>>
    /\ UNCHANGED <<friends, add_pending, messages, locations, ws_user, ws_alive,
                   rm_pending, cleanup_pc,
                   typing_status, timers>>

(* ------------------------------ messages ------------------------------ *)

Null == "NULL"
utcnow == "utcnow"

\* Assigning an attribute reaches the table only if the attribute is a column.
Persist(row, attr, value) == IF attr \in DOMAIN row THEN [row EXCEPT ![attr] = value] ELSE row

\* The row DBMessage(sender_id=, receiver_id=, content=, sticker=, status="sent") inserts.
NewRow(s, r) ==
    [k \in RowColumns \cup (MessageCtorKwargs \cap {"status"}) |->
        IF k = "sender_id" THEN s
        ELSE IF k = "receiver_id" THEN r
        ELSE IF k = "created_at" THEN ProcessStart ELSE "sent"]

\* A relay that forwards to the target without a gate, as the signaling handlers do.
handle_message_unchecked(c, r) ==
    /\ ws_pc[c] = "loop"
    /\ ws_alive[c]
    /\ out' = [Out("message", "ok", ws_user[c],
                   IF r \in Registered /\ ws_alive[active_connections[r]]
                   THEN {Push(r, active_connections[r], "message", ws_user[c], NoLoc, {}, {})}
                   ELSE {})
                EXCEPT !.peer = r]
    /\ UNCHANGED <<friends, add_pending, messages, locations, active_connections,
                   dict_order, ws_user, ws_pc, ws_alive, bc,
                   rm_pending, cleanup_pc,
                   typing_status, timers>>

\* handle_message(message, sender_id) with message.get("receiver_id") = r.
handle_message(c, r) ==
    /\ ws_pc[c] = "loop"
    /\ ws_alive[c]
    /\ LET s == ws_user[c]
           gate == scalar_one_or_none(EdgeRows(s, r))
           id == Cardinality(DOMAIN messages) + 1
           online == r \in Registered /\ ws_alive[active_connections[r]]
           echo == s \in Registered /\ ws_alive[active_connections[s]]
           sent == NewRow(s, r)
           row == IF online
                  THEN Persist(Persist(sent, "status", "delivered"), "delivered_at", utcnow)
                  ELSE sent
       IN  IF r = NoUser
           THEN out' = Out("message", "ignored", s, {}) /\ UNCHANGED messages
           ELSE IF gate = "none"
           THEN out' = [Out("message", "dropped", s, {}) EXCEPT !.peer = r] /\ UNCHANGED messages
           ELSE IF gate = "MultipleResultsFound"
           THEN out' = [Out("message", gate, s, {}) EXCEPT !.peer = r] /\ UNCHANGED messages
           ELSE IF CtorRaises(MessageCtorKwargs)
           THEN out' = [Out("message", "TypeError", s, {}) EXCEPT !.peer = r] /\ UNCHANGED messages
           ELSE /\ messages' = [i \in (DOMAIN messages) \cup {id} |->
                                   IF i = id THEN row ELSE messages[i]]
                /\ out' = [Out("message", "ok", s,
                              {Push(r, active_connections[r], "message", s, NoLoc, {id}, {})
                                 : x \in {y \in {r} : online}}
                              \cup {Push(s, active_connections[s], "message", s, NoLoc, {id}, {})
                                 : x \in {y \in {s} : echo}})
                           EXCEPT !.peer = r]
    /\ UNCHANGED <<friends, add_pending, locations, active_connections,
                   dict_order, ws_user, ws_pc, ws_alive, bc,
                   rm_pending, cleanup_pc,
                   typing_status, timers>>

\* A select that matches on the id alone.
LoadedById(ids, user) == ids \cap DOMAIN messages

\* select(DBMessage).where(DBMessage.id == msg_id, DBMessage.receiver_id == user_id),
\* over the ids of the request: the rows the loop gets a msg for.
Loaded(ids, user) == {i \in ids \cap DOMAIN messages : messages[i]["receiver_id"] = user}

\* "msg and not msg.<attr>" raises for a loaded row without the attribute.
AckRaises(ids, user, attr) == \E i \in Loaded(ids, user) : GetAttrRaises(messages[i], attr)

\* The rows after "msg.status = status; msg.<attr> = now" on the loaded rows
\* whose <attr> is not set yet.
AckRows(ids, user, attr, status) ==
    [i \in DOMAIN messages |->
        IF i \in Loaded(ids, user) /\ messages[i][attr] = Null
        THEN Persist(Persist(messages[i], "status", status), attr, utcnow)
        ELSE messages[i]]

\* handle_mark_delivered(message_ids, user_id)
handle_mark_delivered(c, ids) ==
    /\ ws_pc[c] = "loop"
    /\ ws_alive[c]
    /\ IF ids = {}
       THEN out' = Out("mark_delivered", "ignored", ws_user[c], {}) /\ UNCHANGED messages
       ELSE IF AckRaises(ids, ws_user[c], "delivered_at")
       THEN out' = [Out("mark_delivered", "AttributeError", ws_user[c], {}) EXCEPT !.ids = ids]
            /\ UNCHANGED messages
       ELSE /\ messages' = AckRows(ids, ws_user[c], "delivered_at", "delivered")
            /\ out' = [Out("mark_delivered", "ok", ws_user[c], {}) EXCEPT !.ids = ids]
    /\ UNCHANGED <<friends, add_pending, locations, active_connections,
                   dict_order, ws_user, ws_pc, ws_alive, bc,
                   rm_pending, cleanup_pc,
                   typing_status, timers>>

\* The senders handle_mark_read notifies: of every stored message among the
\* ids (select ... where id.in_(message_ids)), except the reader.
ReadSenders(ids, user) == {messages[i]["sender_id"] : i \in ids \cap DOMAIN messages} \ {user}

\* handle_mark_read(message_ids, user_id)
handle_mark_read(c, ids) ==
    /\ ws_pc[c] = "loop"
    /\ ws_alive[c]
    /\ IF ids = {}
       THEN out' = Out("mark_read", "ignored", ws_user[c], {}) /\ UNCHANGED messages
       ELSE IF AckRaises(ids, ws_user[c], "read_at")
       THEN out' = [Out("mark_read", "AttributeError", ws_user[c], {}) EXCEPT !.ids = ids]
            /\ UNCHANGED messages
       ELSE /\ messages' = AckRows(ids, ws_user[c], "read_at", "read")
            /\ out' = [Out("mark_read", "ok", ws_user[c],
                          {Push(s, active_connections[s], "messages_read", ws_user[c],
                                NoLoc, ids, {})
                             : s \in {t \in ReadSenders(ids, ws_user[c]) \cap Registered :
                                         ws_alive[active_connections[t]]}})
                       EXCEPT !.ids = ids,
                              !.failed = {t \in ReadSenders(ids, ws_user[c]) \cap Registered :
                                            ~ws_alive[active_connections[t]]}]
    /\ UNCHANGED <<friends, add_pending, locations, active_connections,
                   dict_order, ws_user, ws_pc, ws_alive, bc,
                   rm_pending, cleanup_pc,
                   typing_status, timers>>

StatusValues == {"delivered", "read", "seen"}
StatusAttr(status) == IF status = "delivered" THEN "delivered_at" ELSE "read_at"

\* POST /api/users/{user_id}/messages/status
update_message_status(u, ids, status) ==
    /\ IF status \in {"delivered", "read"}
       THEN IF AckRaises(ids, u, StatusAttr(status))
            THEN out' = [Out("status", "500 AttributeError", u, {}) EXCEPT !.ids = ids]
                 /\ UNCHANGED messages
            ELSE /\ messages' = AckRows(ids, u, StatusAttr(status), status)
                 /\ out' = [Out("status", "200", u, {}) EXCEPT !.ids = ids]
       ELSE out' = [Out("status", "200", u, {}) EXCEPT !.ids = ids] /\ UNCHANGED messages
    /\ UNCHANGED <<friends, add_pending, locations, active_connections,
                   dict_order, ws_user, ws_pc, ws_alive, bc,
                   rm_pending, cleanup_pc,
                   typing_status, timers>>

(* ------------------------ history and retention ----------------------- *)

\* The stored messages between u and peer, in either direction, with
\* created_at >= cutoff_date, where cutoff_date = utcnow() - timedelta(days=7).
History(u, peer, t) ==
    {i \in DOMAIN messages :
        /\ \/ messages[i]["sender_id"] = u /\ messages[i]["receiver_id"] = peer
           \/ messages[i]["sender_id"] = peer /\ messages[i]["receiver_id"] = u
        /\ messages[i]["created_at"] >= t - Horizon}

\* order_by(DBMessage.created_at.asc()): the orders the store may return the
\* rows in; rows of equal created_at come in any order.
Ordered(ids) ==
    {q \in [1 .. Cardinality(ids) -> ids] :
        /\ \A i, j \in DOMAIN q : i # j => q[i] # q[j]
        /\ \A i, j \in DOMAIN q :
              i < j => messages[q[i]]["created_at"] <= messages[q[j]]["created_at"]}

\* GET /api/users/{u}/messages/{peer}, with utcnow() = t.
get_messages(u, peer, t) ==
    /\ LET gate == scalar_one_or_none(EdgeRows(u, peer))
           found == History(u, peer, t)
           Reply(result) == [Out("get_messages", result, u, {}) EXCEPT !.peer = peer]
       IN  IF gate = "none"
           THEN out' = Reply("403")
           ELSE IF gate = "MultipleResultsFound"
           THEN out' = Reply("500 MultipleResultsFound")
           ELSE IF \E i \in found : GetAttrRaises(messages[i], "status")
           THEN out' = Reply("500 AttributeError")
           ELSE \E q \in Ordered(found) : out' = [Reply("200") EXCEPT !.messages = q]
    /\ UNCHANGED <<friends, add_pending, rm_pending, cleanup_pc, messages, locations,
                   active_connections, dict_order, ws_user, ws_pc, ws_alive, bc,
                   typing_status, timers>>

\* await asyncio.sleep(3600) returns.
cleanup_wake ==
    /\ cleanup_pc = "sleep"
    /\ cleanup_pc' = "sweep"
    /\ out' = Out("cleanup", "woke", NoUser, {})
    /\ UNCHANGED <<friends, add_pending, rm_pending, messages, locations,
                   active_connections, dict_order, ws_user, ws_pc, ws_alive, bc,
                   typing_status, timers>>

\* A cutoff comparison that takes the horizon itself as old.
ExpiredOrAtHorizon(row, t) == row["created_at"] <= t - Horizon

\* DBMessage.created_at < cutoff_date, where cutoff_date = utcnow() - timedelta(days=7).
Expired(row, t) == row["created_at"] < t - Horizon

\* A task that the exception of a failed sweep ends.
Raised == "dead"

\* Where the task goes after "except Exception": round the while loop.
Caught == "sleep"

\* One pass of the loop body with utcnow() = t: the bulk delete and the
\* commit, or a store error, which is printed and rolled back.
cleanup_sweep(t, store_ok) ==
    /\ cleanup_pc = "sweep"
    /\ LET old == {i \in DOMAIN messages : Expired(messages[i], t)} IN
       IF store_ok
       THEN /\ messages' = [i \in (DOMAIN messages) \ old |-> messages[i]]
            /\ cleanup_pc' = "sleep"
            /\ out' = [Out("cleanup", "ok", NoUser, {}) EXCEPT !.ids = old]
       ELSE /\ messages' = messages
            /\ cleanup_pc' = Caught
            /\ out' = Out("cleanup", "error", NoUser, {})
    /\ UNCHANGED <<friends, add_pending, rm_pending, locations,
                   active_connections, dict_order, ws_user, ws_pc, ws_alive, bc,
                   typing_status, timers>>

(* ------------------------- typing and signalling --------------------- *)

\* A send to user v writes to the registered channel of v and succeeds.
Writable(v) == v \in Registered /\ ws_alive[active_connections[v]]

\* handle_typing_status, typing_start (is_typing) or typing_stop: no friend
\* lookup; the clear_typing task is created and never cancelled.
handle_typing_status(c, receiver_id, is_typing) ==
    LET user_id == ws_user[c]
        op == IF is_typing THEN "typing_start" ELSE "typing_stop" IN
    /\ ws_pc[c] = "loop"
    /\ ws_alive[c]
    /\ IF receiver_id = NoUser \/ receiver_id \notin Registered
       THEN /\ out' = [Out(op, "ignored", user_id, {}) EXCEPT !.peer = receiver_id]
            /\ UNCHANGED <<typing_status, timers>>
       ELSE /\ is_typing => timers[<<user_id, receiver_id>>] < MaxTimers
            /\ typing_status' = TypingSet(typing_status, user_id, receiver_id, is_typing)
            /\ timers' = IF is_typing
                         THEN [timers EXCEPT ![<<user_id, receiver_id>>] = @ + 1]
                         ELSE timers
            /\ out' = [Out(op, "ok", user_id,
                           IF Writable(receiver_id)
                           THEN {TypingEvent(receiver_id, active_connections[receiver_id],
                                             user_id, is_typing)}
                           ELSE {})
                         EXCEPT !.peer = receiver_id,
                                !.failed = IF Writable(receiver_id) THEN {} ELSE {receiver_id}]
    /\ UNCHANGED <<friends, add_pending, messages, locations, active_connections,
                   dict_order, ws_user, ws_pc, ws_alive, bc, rm_pending, cleanup_pc>>

\* A clear_typing task wakes from its sleep of 3 s; tasks of one pair wake in
\* the order of their creation.
clear_typing(user_id, receiver_id) ==
    /\ timers[<<user_id, receiver_id>>] > 0
    /\ timers' = [timers EXCEPT ![<<user_id, receiver_id>>] = @ - 1]
    /\ IF TypingHas(typing_status, user_id, receiver_id)
       THEN /\ typing_status' = TypingSet(typing_status, user_id, receiver_id, FALSE)
            /\ out' = [Out("clear_typing",
                           IF receiver_id \in Registered THEN "cleared" ELSE "offline",
                           user_id,
                           IF Writable(receiver_id)
                           THEN {TypingEvent(receiver_id, active_connections[receiver_id],
                                             user_id, FALSE)}
                           ELSE {})
                         EXCEPT !.peer = receiver_id,
                                !.failed = IF receiver_id \in Registered
                                              /\ ~Writable(receiver_id)
                                           THEN {receiver_id} ELSE {}]
       ELSE /\ typing_status' = typing_status
            /\ out' = [Out("clear_typing", "skipped", user_id, {}) EXCEPT !.peer = receiver_id]
    /\ UNCHANGED <<friends, add_pending, messages, locations, active_connections,
                   dict_order, ws_user, ws_pc, ws_alive, bc, rm_pending, cleanup_pc>>

\* Every registered user.
SignalToAll(target_id) == Registered

\* The users a signalling event is sent to: the target, if it is registered.
SignalTo(target_id) == IF target_id # NoUser /\ target_id \in Registered
                       THEN {target_id} ELSE {}

\* The body the three signalling handlers share: one send, errors swallowed.
relay_signal(c, kind, target_id, payload) ==
    LET to == SignalTo(target_id) IN
    /\ ws_pc[c] = "loop"
    /\ ws_alive[c]
    /\ out' = [Out(kind, IF to = {} THEN "dropped" ELSE "relayed", ws_user[c],
                   {SignalEvent(v, active_connections[v], kind, ws_user[c], payload)
                      : v \in {w \in to : Writable(w)}})
                 EXCEPT !.peer = target_id,
                        !.payload = payload,
                        !.failed = {w \in to : ~Writable(w)}]
    /\ UNCHANGED <<friends, add_pending, messages, locations, active_connections,
                   dict_order, ws_user, ws_pc, ws_alive, bc, rm_pending, cleanup_pc,
                   typing_status, timers>>

handle_webrtc_offer(c, target_id, offer) ==
    relay_signal(c, "webrtc_offer", target_id, offer)

handle_webrtc_answer(c, target_id, answer) ==
    relay_signal(c, "webrtc_answer", target_id, answer)

handle_webrtc_ice(c, target_id, candidate) ==
    relay_signal(c, "webrtc_ice_candidate", target_id, candidate)

(* --------------------------- specifications -------------------------- *)

\* The friend requests of clients (a per-specification set of pairs).
FriendOps(requests) ==
    \/ \E p \in requests : add_friend(p[1], p[2])
    \/ \E p \in requests : add_friend_commit(p[1], p[2])
    \/ \E p \in requests : remove_friend(p[1], p[2])

\* Connections opening on the first n channels, and closing.
Connections(n) ==
    \/ \E u \in Users, c \in 1 .. n : connect(u, c)
    \/ \E c \in Chans : send_initial(c)
    \/ \E c \in Chans : client_close(c)
    \/ \E c \in Chans : on_disconnect(c)

\* Presence: friends, connections and the location fan-out.
NextPresence ==
    \/ FriendOps(FriendRequests)
    \/ Connections(MaxChans)
    \/ \E c \in {d \in Chans : ws_user[d] \in Reporters}, coord \in Coords :
          location_update(c, coord)
    \/ \E c \in {d \in Chans : ws_user[d] \in Reporters}, coord \in Coords :
          location_update_failed(c, coord)
    \/ \E c \in Chans : broadcast_query(c)
    \/ \E c \in Chans : broadcast_step(c)

InitPresence == Init /\ messages = << >>

SpecPresence == InitPresence /\ [][NextPresence]_vars

\* Messaging: friends, connections, the message relay and the acks.
NextMessages ==
    \/ FriendOps(FriendRequests)
    \/ Connections(MaxMsgChans)
    \/ \E c \in Chans : bad_payload(c)
    \/ \E c \in Chans, r \in Users \cup {NoUser} : handle_message(c, r)
    \/ \E c \in Chans, ids \in SUBSET AckIds : handle_mark_delivered(c, ids)
    \/ \E c \in Chans, ids \in SUBSET AckIds : handle_mark_read(c, ids)
    \/ \E u \in Users, ids \in SUBSET AckIds, status \in StatusValues :
          update_message_status(u, ids, status)

SpecMessages == Init /\ [][NextMessages]_vars

\* The histories clients ask for: between the two correspondents, and with a stranger.
HistoryRequests == {<<"u1", "u2">>, <<"u2", "u1">>, <<"u1", "u3">>}

\* Retention: friends, one connection, message history and the cleanup task.
NextRetention ==
    \/ FriendOps(FriendRequests)
    \/ Connections(1)
    \/ \E p \in HistoryRequests, t \in Clock : get_messages(p[1], p[2], t)
    \/ cleanup_wake
    \/ \E t \in Clock, store_ok \in BOOLEAN : cleanup_sweep(t, store_ok)

\* Messages of earlier days in the table when the process starts.
InitRetention ==
    /\ InitProcess
    /\ \E n \in 0 .. MaxAged :
         messages \in [1 .. n -> RowsAt(StoredPairs, CreatedAts)]

SpecRetention == InitRetention /\ [][NextRetention]_vars

\* The event loop runs the cleanup task whenever its sleep is over: the
\* timer fires and a ready task is resumed.
SpecRetentionFair ==
    /\ SpecRetention
    /\ WF_vars(cleanup_wake)
    /\ WF_vars(\E t \in Clock, store_ok \in BOOLEAN : cleanup_sweep(t, store_ok))

\* The friend requests clients issue at the same time: on one pair in both
\* argument orders, and to oneself.
ConcurrentRequests == {<<"u1", "u2">>, <<"u2", "u1">>, <<"u1", "u1">>}

\* Friends: add_friend and remove_friend requests, interleaved at their awaits.
NextFriends ==
    \/ \E p \in ConcurrentRequests : add_friend(p[1], p[2])
    \/ \E p \in ConcurrentRequests : add_friend_commit(p[1], p[2])
    \/ \E p \in ConcurrentRequests : remove_friend_select(p[1], p[2])
    \/ \E p \in ConcurrentRequests : remove_friend_commit(p[1], p[2])

InitFriends == Init /\ messages = << >>

SpecFriends == InitFriends /\ [][NextFriends]_vars

\* Typing and signalling: friends, connections, typing events with their
\* clear_typing tasks, and the three signalling relays.
NextSignals ==
    \/ FriendOps(FriendRequests)
    \/ Connections(MaxSigChans)
    \/ \E c \in Chans, is_typing \in BOOLEAN :
          \E p \in {q \in TypingPairs : q[1] = ws_user[c]} :
             handle_typing_status(c, p[2], is_typing)
    \/ \E p \in TypingPairs : clear_typing(p[1], p[2])
    \/ \E c \in {d \in Chans : ws_user[d] \in SignalSenders},
          t \in SignalTargets, payload \in Payloads :
          \/ handle_webrtc_offer(c, t, payload)
          \/ handle_webrtc_answer(c, t, payload)
          \/ handle_webrtc_ice(c, t, payload)

SpecSignals == InitPresence /\ [][NextSignals]_vars

\* The event loop runs every task whose sleep is over.
SpecSignalsFair ==
    SpecSignals /\ \A p \in TypingPairs : WF_vars(clear_typing(p[1], p[2]))

(* ------------------------------- claims ------------------------------- *)

\* The lifecycle state of a row, NULL when the table has no such column.
RowStatus(row) == IF "status" \in DOMAIN row THEN row["status"] ELSE Null
RowStamp(row, attr) == IF attr \in DOMAIN row THEN row[attr] ELSE Null

Count(seq, v) == Cardinality({i \in DOMAIN seq : seq[i] = v})

\* C1: handling a `message` event from S to R while no friend row joins them in
\* either direction adds no row to the messages table and pushes no `message`
\* event to any channel, whatever connections are registered.
C1_NonFriendMessageDropped ==
    [][\A c \in Chans, r \in Users :
          (out'.op = "message" /\ handle_message(c, r) /\ EdgeRows(ws_user[c], r) = 0)
          => (messages' = messages /\ \A p \in out'.pushed : p.type # "message")]_vars

\* C1 happens: a message to a stranger who is registered and writable was handled.
C1_Witness ==
    /\ out.op = "message"
    /\ out.result = "dropped"
    /\ out.peer \in Registered \ {out.user}
    /\ ws_alive[active_connections[out.peer]]
    /\ EdgeRows(out.user, out.peer) = 0

\* C2: a `location_update` event of U is never pushed to the channel of a user
\* V # U who is not a friend of U at the moment of the push.
C2_NoLocationPushToNonFriend ==
    \A p \in out.pushed :
        (p.type = "location_update" /\ p.to # p.sender) => EdgeRows(p.to, p.sender) > 0

\* C2's case: a location_update reached a friend's channel.
C2_Witness ==
    \E p \in out.pushed :
        p.type = "location_update" /\ p.to # p.sender /\ EdgeRows(p.to, p.sender) > 0

\* C3: when the handling of U's persisted location update ends, U and every
\* friend of U whose registry entry stayed registered and writable from the
\* persist on have each been sent exactly one location_update.
C3_EveryStableFriendReceivesOnce ==
    (out.op = "location_update" /\ out.result \in {"ok", "RuntimeError"})
    => \A v \in out.stable :
          (v = out.user \/ (v \in out.friend_ids /\ EdgeRows(v, out.user) > 0))
          => Count(out.sent, v) = 1

\* C3's case: a fan-out ended after a friend registered throughout got its event.
C3_Witness ==
    /\ out.op = "location_update"
    /\ out.result = "ok"
    /\ \E v \in out.stable \ {out.user} : v \in out.friend_ids /\ Count(out.sent, v) = 1

\* C7: handling a `message` event from S to a friend R persists exactly one row,
\* in state `sent`, advanced to `delivered` with delivered-at set when R is
\* registered and the push to R succeeds, left `sent` with delivered-at null otherwise.
C7_FriendMessagePersistedOnce ==
    [][\A c \in Chans, r \in Users :
          (out'.op = "message" /\ handle_message(c, r) /\ EdgeRows(ws_user[c], r) > 0)
          => \E id \in DOMAIN messages' :
                /\ DOMAIN messages' = (DOMAIN messages) \cup {id}
                /\ id \notin DOMAIN messages
                /\ \A i \in DOMAIN messages : messages'[i] = messages[i]
                /\ messages'[id]["sender_id"] = ws_user[c]
                /\ messages'[id]["receiver_id"] = r
                /\ IF r \in Registered /\ ws_alive[active_connections[r]]
                   THEN /\ RowStatus(messages'[id]) = "delivered"
                        /\ RowStamp(messages'[id], "delivered_at") # Null
                   ELSE /\ RowStatus(messages'[id]) = "sent"
                        /\ RowStamp(messages'[id], "delivered_at") = Null]_vars

\* C7's case: a message between two users joined by friend rows was handled.
C7_Witness ==
    /\ out.op = "message"
    /\ out.peer \in Users
    /\ EdgeRows(out.user, out.peer) > 0

\* C8: a message A sends to friend B while B has no registered connection is
\* stored in state `sent`; B's later connect leaves the table as it is; B's
\* mark_delivered for the id then makes it `delivered` with delivered-at set,
\* and the table neither loses nor gains a row.
C8_OfflineMessageStoredThenDelivered ==
    [][/\ \A c \in Chans, r \in Users :
            (/\ out'.op = "message"
             /\ handle_message(c, r)
             /\ EdgeRows(ws_user[c], r) > 0
             /\ r \notin Registered)
            => \E id \in (DOMAIN messages') \ (DOMAIN messages) :
                  /\ messages'[id]["sender_id"] = ws_user[c]
                  /\ messages'[id]["receiver_id"] = r
                  /\ RowStatus(messages'[id]) = "sent"
       /\ \A u \in Users, c \in Chans :
            (out'.op = "connect" /\ connect(u, c)) => messages' = messages
       /\ \A c \in Chans, ids \in SUBSET AckIds :
            (out'.op = "mark_delivered" /\ handle_mark_delivered(c, ids))
            => /\ DOMAIN messages' = DOMAIN messages
               /\ \A i \in ids \cap DOMAIN messages :
                     (messages[i]["receiver_id"] = ws_user[c] /\ RowStatus(messages[i]) = "sent")
                     => /\ RowStatus(messages'[i]) = "delivered"
                        /\ RowStamp(messages'[i], "delivered_at") # Null]_vars

\* C8's case: a message to a friend without a registered connection was handled.
C8_Witness ==
    /\ out.op = "message"
    /\ out.peer \in Users \ Registered
    /\ EdgeRows(out.user, out.peer) > 0

\* C11: in every reachable state of the friends table, under every
\* interleaving of add_friend and remove_friend requests at their awaits, a
\* row a->b exists if and only if a row b->a exists.
C11_MirrorRows ==
    \A p \in Pairs : (friends[p] # {}) <=> (friends[<<p[2], p[1]>>] # {})

\* C11's case: the table holds rows while a remove_friend that selected before
\* a later commit still holds its stale selection.
C11_Witness ==
    /\ \E p \in Pairs : friends[p] # {}
    /\ \E r \in rm_pending : r.rows # MatchingRows(r.user_id, r.friend_id)

\* C12: for distinct a and b, the commit of add_friend(a, b) leaves rows a->b
\* and b->a; the commit of remove_friend(a, b), in either argument order,
\* leaves no row it selected, and neither direction when no add_friend
\* committed on the pair since its select; on a pair without rows it ends
\* normally and changes nothing.
C12_AddThenBoth_RemoveThenNeither ==
    [][/\ \A p \in Pairs :
            (/\ out'.op = "add_friend" /\ out'.user = p[1] /\ out'.peer = p[2]
             /\ p[1] # p[2]
             /\ add_friend_commit(p[1], p[2]))
            => (friends'[p] # {} /\ friends'[<<p[2], p[1]>>] # {} /\ out'.result = "ok")
       /\ \A p \in Pairs, r \in rm_pending :
            (/\ out'.op = "remove_friend" /\ out'.user = p[1] /\ out'.peer = p[2]
             /\ r.user_id = p[1] /\ r.friend_id = p[2]
             /\ remove_friend_commit(p[1], p[2]))
            => /\ out'.result = "ok"
               /\ (friends'[p] \cup friends'[<<p[2], p[1]>>]) \cap r.rows = {}
               /\ (friends[p] \cup friends[<<p[2], p[1]>>]) \subseteq r.rows
                  => (friends'[p] = {} /\ friends'[<<p[2], p[1]>>] = {})
               /\ (friends[p] \cup friends[<<p[2], p[1]>>]) = {} => friends' = friends]_vars

\* C12's case: a remove_friend deleted the rows of both directions.
C12_Witness ==
    /\ out.op = "remove_friend"
    /\ out.result = "ok"
    /\ Cardinality(out.ids) >= 2
    /\ MatchingRows(out.user, out.peer) = {}

\* C13: add_friend(a, a) is refused as a self-friendship, add_friend(a, b)
\* issued while a row joins a and b in either direction is refused as an
\* existing friendship, and neither changes the friends table.
C13_SelfAndDuplicateRefused ==
    [][\A p \in Pairs :
          (out'.op = "add_friend" /\ out'.user = p[1] /\ out'.peer = p[2]
           /\ add_friend(p[1], p[2]))
          => /\ p[1] = p[2] => (out'.result = "400 self" /\ friends' = friends)
             /\ (p[1] # p[2] /\ MatchingRows(p[1], p[2]) # {})
                => (out'.result = "400 exists" /\ friends' = friends)]_vars

\* C13's case: add_friend was issued on a pair that a friend row joins.
C13_Witness ==
    /\ out.op = "add_friend"
    /\ out.user # out.peer
    /\ out.result \notin {"checked", "ok"}
    /\ MatchingRows(out.user, out.peer) # {}

\* C14: the friends table never holds two rows for the same ordered pair,
\* also when add_friend requests interleave between check and commit.
C14_NoDuplicateRows ==
    \A p \in Pairs : Cardinality(friends[p]) <= 1

\* C14's case: two add_friend requests on one pair were between their check
\* and their commit at the same time.
C14_Witness ==
    \E p \in add_pending : <<p[2], p[1]>> \in add_pending

\* C15: when a connection of U ends while the registry holds another, live
\* connection of U, the disconnect handler leaves U's registry entry as it is.
C15_StaleDisconnectKeepsNewer ==
    [][\A c \in Chans :
          (/\ out'.op = "disconnect"
           /\ on_disconnect(c)
           /\ ws_user[c] \in Registered
           /\ active_connections[ws_user[c]] # c
           /\ ws_alive[active_connections[ws_user[c]]])
          => /\ ws_user[c] \in DOMAIN active_connections'
             /\ active_connections'[ws_user[c]] = active_connections[ws_user[c]]]_vars

\* C15's case: a connection of a user ended and a later one of the same user lives.
C15_Witness ==
    /\ out.op = "disconnect"
    /\ \E c \in Chans : ws_user[c] = out.user /\ ws_alive[c] /\ ws_pc[c] = "loop"

\* C16: a user whose channel a handler failed to write to is not in the
\* registry when that handler has ended.
C16_FailedPushUnregisters ==
    \A u \in out.failed : u \notin Registered

\* C16's case: a push to a registered user's channel failed.
C16_Witness == out.failed # {}

\* C17: no registry entry holds the channel of a connection whose receive loop
\* has ended, be it by a disconnect or by an error raised on an inbound payload.
C17_EndedLoopUnregistered ==
    \A u \in Registered : ws_pc[active_connections[u]] \notin {"closed", "crashed"}

\* C17's case: a receive loop ended on a payload it could not handle.
C17_Witness == \E c \in Chans : ws_pc[c] = "crashed"

\* The ids of seq come by ascending creation time, equal times by ascending id.
AscendingByTimeThenId(seq) ==
    \A i, j \in DOMAIN seq :
        i < j => \/ messages[seq[i]]["created_at"] < messages[seq[j]]["created_at"]
                 \/ /\ messages[seq[i]]["created_at"] = messages[seq[j]]["created_at"]
                    /\ seq[i] < seq[j]

\* The stored messages exchanged between u and peer that are younger than the horizon at t.
Exchanged(u, peer, t) ==
    {i \in DOMAIN messages :
        /\ {messages[i]["sender_id"], messages[i]["receiver_id"]} = {u, peer}
        /\ t - messages[i]["created_at"] < Horizon}

\* C18: get_messages(u, peer) is refused as not-friends when no friend row
\* joins u and peer; otherwise it returns exactly the stored messages between
\* them within the horizon, ascending by creation time, ties by id.
C18_HistoryOfFriendsOnly ==
    [][\A p \in Pairs, t \in Clock :
          (/\ out'.op = "get_messages" /\ out'.user = p[1] /\ out'.peer = p[2]
           /\ get_messages(p[1], p[2], t))
          => IF MatchingRows(p[1], p[2]) = {}
             THEN out'.result = "403"
             ELSE /\ out'.result = "200"
                  /\ {out'.messages[i] : i \in DOMAIN out'.messages} = Exchanged(p[1], p[2], t)
                  /\ Len(out'.messages) = Cardinality(Exchanged(p[1], p[2], t))
                  /\ AscendingByTimeThenId(out'.messages)]_vars

\* C18's case: the history of two friends with stored messages was requested.
C18_Witness ==
    /\ out.op = "get_messages"
    /\ MatchingRows(out.user, out.peer) # {}
    /\ \E i \in DOMAIN messages :
          {messages[i]["sender_id"], messages[i]["receiver_id"]} = {out.user, out.peer}

\* Everything but the messages table is as it was.
OnlyMessagesChange ==
    /\ friends' = friends
    /\ locations' = locations
    /\ active_connections' = active_connections
    /\ ws_pc' = ws_pc

\* C19 as claimed: a sweep at time t removes exactly the messages whose age at
\* t is at or beyond the horizon, and changes nothing else.
C19_SweepRemovesAtOrBeyondHorizon ==
    [][\A t \in Clock :
          (out'.op = "cleanup" /\ out'.result = "ok" /\ cleanup_sweep(t, TRUE))
          => /\ DOMAIN messages' = {i \in DOMAIN messages : t - messages[i]["created_at"] < Horizon}
             /\ \A i \in DOMAIN messages' : messages'[i] = messages[i]
             /\ OnlyMessagesChange]_vars

\* C19 amended: a sweep at time t removes exactly the messages whose age at t
\* is beyond the horizon (older than 7 days), keeps a message of exactly that
\* age and every younger one, and changes nothing else.
C19_SweepRemovesBeyondHorizon ==
    [][\A t \in Clock :
          (out'.op = "cleanup" /\ out'.result = "ok" /\ cleanup_sweep(t, TRUE))
          => /\ DOMAIN messages' = {i \in DOMAIN messages : t - messages[i]["created_at"] <= Horizon}
             /\ \A i \in DOMAIN messages' : messages'[i] = messages[i]
             /\ OnlyMessagesChange]_vars

\* C19's case: a sweep removed a message and kept another.
C19_Witness ==
    /\ out.op = "cleanup"
    /\ out.result = "ok"
    /\ out.ids # {}
    /\ DOMAIN messages # {}

\* C20: a store error during a sweep deletes nothing, stops neither the
\* cleanup task nor a connection handler, and is followed by another sweep.
C20_FailedSweepIsRetried ==
    /\ [][(out'.op = "cleanup" /\ out'.result = "error")
          => (messages' = messages /\ cleanup_pc' = "sleep" /\ OnlyMessagesChange)]_vars
    /\ (out.op = "cleanup" /\ out.result = "error") ~> (cleanup_pc = "sweep")

\* C20's case: a sweep failed while a connection handler was in its loop.
C20_Witness ==
    /\ out.op = "cleanup"
    /\ out.result = "error"
    /\ \E c \in Chans : ws_pc[c] = "loop"

\* C21: when persisting U's location update fails, the stored location of U
\* keeps its value, nothing is pushed, and no fan-out is started for the update.
C21_FailedPersistNoFanout ==
    [][(out'.op = "location_update" /\ out'.result = "store error")
       => /\ locations' = locations
          /\ out'.pushed = {}
          /\ ws_pc' = ws_pc
          /\ bc' = bc]_vars

\* C21's case: a location update failed to persist while a location of the
\* user is stored and a friend is registered.
C21_Witness ==
    /\ out.op = "location_update"
    /\ out.result = "store error"
    /\ locations[out.user] # NoLoc
    /\ \E v \in Registered \ {out.user} : EdgeRows(v, out.user) > 0

\* The pushes of a step that carry an initial_locations snapshot.
Snapshots(o) == {p \in o.pushed : p.type = "initial_locations"}

C27_SnapshotIsFirstPush ==
    \A p \in out.pushed :
        (p.type # "initial_locations" /\ p.sender # p.to /\ out.user # p.to)
        => ws_pc[p.chan] # "registered"

\* C27's case: a friend's location_update is pushed by another user's handler
\* to a channel whose snapshot has been sent.
C27_Witness ==
    \E p \in out.pushed :
        /\ p.type = "location_update"
        /\ p.to # p.sender
        /\ out.user # p.to
        /\ ws_pc[p.chan] = "loop"

SignalKinds == {"webrtc_offer", "webrtc_answer", "webrtc_ice_candidate"}

\* C23: handling a webrtc_offer, webrtc_answer or webrtc_ice_candidate event of
\* S with target T makes exactly one send, to the registered channel of T, of
\* an event of that kind carrying the payload and sender_id = S, when T is
\* registered, and none otherwise; the store, the registry and the typing map
\* are left unchanged.
C23_SignalRelayedToTargetOnly ==
    [][out'.op \in SignalKinds
       => /\ UNCHANGED <<friends, messages, locations, active_connections,
                         dict_order, typing_status, timers>>
          /\ \A e \in out'.pushed :
                /\ e.to = out'.peer
                /\ e.to \in Registered
                /\ e = SignalEvent(e.to, active_connections[e.to], out'.op,
                                   out'.user, out'.payload)
          /\ out'.failed \subseteq {out'.peer}
          /\ IF out'.peer \in Registered
             THEN Cardinality(out'.pushed) + Cardinality(out'.failed) = 1
             ELSE out'.pushed = {} /\ out'.failed = {}]_vars

\* C23's case: a signalling event has been relayed to its registered target.
C23_Witness ==
    /\ out.op \in SignalKinds
    /\ out.peer \in Registered
    /\ out.pushed # {}
    /\ DOMAIN typing_status # {}

\* C24: a clear_typing task that a newer typing event of the same pair has
\* superseded pushes no is_typing = false: a task that pushes is the newest
\* task of its pair.
C24_SupersededTimerIsSilent ==
    (out.op = "clear_typing" /\ timers[<<out.user, out.peer>>] > 0)
    => out.pushed = {}

\* C24's case: the newest clear_typing task of a pair has pushed the clear.
C24_Witness ==
    /\ out.op = "clear_typing"
    /\ timers[<<out.user, out.peer>>] = 0
    /\ out.pushed # {}

\* C25: a typing_status event with sender U is pushed to P only if U and P are
\* friends at that moment.
C25_TypingOnlyBetweenFriends ==
    \A e \in out.pushed :
        e.type = "typing_status" => EdgeRows(e.to, e.sender) > 0

\* C25's case: a typing_status event has been pushed to a friend of its sender.
C25_Witness ==
    \E e \in out.pushed :
        e.type = "typing_status" /\ EdgeRows(e.to, e.sender) > 0

\* A typing_status event of u with this is_typing has just been pushed to p.
TypingPushed(u, p, is_typing) ==
    \E e \in out.pushed : /\ e.type = "typing_status"
                          /\ e.sender = u
                          /\ e.to = p
                          /\ e.is_typing = is_typing

\* C28: every push of is_typing = true from U to P is followed by a push of
\* is_typing = false from U to P, unless P does not stay connected.
C28_TypingIsCleared ==
    \A p \in TypingPairs :
        TypingPushed(p[1], p[2], TRUE)
        ~> (TypingPushed(p[1], p[2], FALSE) \/ ~Writable(p[2]))

\* C28's case: the clear_typing task has pushed the clear after a typing_start.
C28_Witness ==
    /\ out.op = "clear_typing"
    /\ TypingPushed(out.user, out.peer, FALSE)

\* No id of the request is a stored message whose receiver is x.
NotReceiverOf(x, ids) ==
    \A i \in ids : i \notin DOMAIN messages \/ messages[i]["receiver_id"] # x

\* C9: an ack (mark_delivered or mark_read over the websocket, or the REST
\* status update) by X for ids that are stored messages of another receiver or
\* are not stored at all is skipped: the request ends without an error and no
\* row of the messages table changes.
C9_NonReceiverAckIsSkipped ==
    [][(/\ out'.op \in {"mark_delivered", "mark_read", "status"}
        /\ NotReceiverOf(out'.user, out'.ids))
       => (messages' = messages /\ out'.result \in {"ok", "ignored", "200"})]_vars

\* C9's case: a user acked a stored message addressed to someone else.
C9_Witness ==
    /\ out.op \in {"mark_delivered", "mark_read"}
    /\ out.result = "ok"
    /\ \E i \in out.ids \cap DOMAIN messages : messages[i]["receiver_id"] # out.user

\* C10: a `messages_read` event reaches a sender's channel only through a
\* mark_read by the receiver of that sender's messages, and carries exactly the
\* ids this ack newly moved to `read`.
C10_ReadNotificationOnlyForNewlyRead ==
    [][\A c \in Chans, ids \in SUBSET AckIds :
          (out'.op = "mark_read" /\ handle_mark_read(c, ids))
          => \A p \in out'.pushed :
                p.type = "messages_read"
                => /\ p.ids # {}
                   /\ p.ids = {i \in DOMAIN messages :
                                  /\ messages[i]["sender_id"] = p.to
                                  /\ messages[i]["receiver_id"] = ws_user[c]
                                  /\ RowStatus(messages[i]) # "read"
                                  /\ RowStatus(messages'[i]) = "read"}]_vars

\* C10's case: a messages_read event was pushed.
C10_Witness == \E p \in out.pushed : p.type = "messages_read"

====
